---- MODULE Spec2Model ----
(***************************************************************************)
(* The two aggregation pipelines of the repository:                        *)
(*   extract_active_devices.py   extract_flattened_devices, ms_to_readable *)
(*   count_valid_device_users.py count_users_with_valid_devices, __main__  *)
(*                                                                         *)
(* Values.  A BSON / Python value is a record [t, n, s]: t is its type,    *)
(* n its number, s its characters.  A missing field is the value Absent,   *)
(* which is distinct from a present null.  Strings are sequences of        *)
(* one-character strings, so that the regular expressions can be computed. *)
(* Timestamps are counted in whole days since the epoch (one unit stands   *)
(* for 86 400 000 of the store's milliseconds): 365 days of milliseconds   *)
(* exceed the integers of the model checker.                               *)
(***************************************************************************)
EXTENDS Integers, Sequences, FiniteSets

VARIABLES store, pc, cursor, rows, count, out, norm

vars == <<store, pc, cursor, rows, count, out, norm>>

----------------------------------------------------------------------------
(* Bounds of the model *)

MaxDocs == 2
MaxDevices == 2
MaxAuthenticators == 2
NormSpan == 30

----------------------------------------------------------------------------
(* Values *)

Absent == [t |-> "absent", n |-> 0, s |-> <<>>]
Null == [t |-> "null", n |-> 0, s |-> <<>>]
Num(k) == [t |-> "num", n |-> k, s |-> <<>>]
Str(cs) == [t |-> "str", n |-> 0, s |-> cs]
Bool(b) == [t |-> "bool", n |-> IF b THEN 1 ELSE 0, s |-> <<>>]
Date(k) == [t |-> "date", n |-> k, s |-> <<>>]

EmptyStr == Str(<<>>)

AbsentArr == [t |-> "absent", a |-> <<>>]
NullArr == [t |-> "null", a |-> <<>>]
Arr(elems) == [t |-> "array", a |-> elems]
SubDoc(e) == [t |-> "doc", a |-> <<e>>]

Range(f) == {f[i] : i \in DOMAIN f}

SeqsUpTo(S, k) == UNION {[1..m -> S] : m \in 0..k}

----------------------------------------------------------------------------
(* Configuration and clock *)

DAYS_THRESHOLD == 365

(* datetime.now(), a day of the year 2024; the timestamps of the documents *)
(* lie below, at and above the threshold it gives. *)
NowDay == 20000

one_year_ago_ms == NowDay - DAYS_THRESHOLD

----------------------------------------------------------------------------
(* The documents of the store.  A UserDocument has the fields user_id,     *)
(* devices and authenticators; a DeviceRecord device_id, created and       *)
(* last_access; an AuthenticatorRecord method, device_id, last_used,       *)
(* status, provider_config_id and expired.  Every field may be Absent.     *)

Digit == {"0", "1", "2", "3", "4", "5", "6", "7", "8", "9"}

UidPlain == Str(<<"u", "1">>)
UidEph == Str(<<"e", "p", "h", ".", "a">>)
Uid18 == Str(<<"1", "2", "3", "4", "5", "6", "7", "8", "9",
               "0", "1", "2", "3", "4", "5", "6", "7", "8">>)
Uid17 == Str(<<"1", "2", "3", "4", "5", "6", "7", "8", "9",
               "0", "1", "2", "3", "4", "5", "6", "7">>)

UserIds == {Absent, Null, UidPlain, UidEph, Uid18, Uid17}

TsCreated == one_year_ago_ms - 100
TsOld == one_year_ago_ms - 1
TsEdge == one_year_ago_ms
TsRecent == one_year_ago_ms + 1

Device(id, created, la) == [device_id |-> id, created |-> created, last_access |-> la]

DevRecent == Device(Str(<<"d", "1">>), Num(TsCreated), Num(TsEdge))
DevOld == Device(Str(<<"d", "2">>), Num(TsCreated), Num(TsOld))
DevNulls == Device(Null, Null, Null)
DevPartial == Device(EmptyStr, Absent, Num(0))

DeviceRecords == {DevRecent, DevOld, DevNulls, DevPartial}

Authenticator(m, id, lu, st, cfg, ex) ==
    [method |-> m, device_id |-> id, last_used |-> lu, status |-> st,
     provider_config_id |-> cfg, expired |-> ex]

AuthRecent ==
    Authenticator(Str(<<"t", "o", "t", "p">>), Str(<<"a", "1">>), Num(TsRecent),
                  Str(<<"o", "n">>), Str(<<"c", "1">>), Bool(TRUE))
AuthOld ==
    Authenticator(Absent, Str(<<"a", "2">>), Num(TsOld), Absent, Absent, Absent)
AuthBare ==
    Authenticator(Null, Absent, Absent, EmptyStr, Absent, Bool(FALSE))

AuthenticatorRecords == {AuthRecent, AuthOld, AuthBare}

UserDocument(uid, devs, auths) ==
    [user_id |-> uid, devices |-> devs, authenticators |-> auths]

DeviceArrays == {AbsentArr, NullArr} \cup {Arr(a) : a \in SeqsUpTo(DeviceRecords, MaxDevices)}

AuthenticatorArrays ==
    {AbsentArr} \cup {Arr(a) : a \in SeqsUpTo(AuthenticatorRecords, MaxAuthenticators)}

(* Every document the bounds allow. *)
Documents ==
    {UserDocument(u, d, a) : u \in UserIds, d \in DeviceArrays, a \in AuthenticatorArrays}

(* The documents of the collections of several documents. *)
SampleNested ==
    { <<Arr(<<DevRecent>>), AbsentArr>>,
      <<Arr(<<DevOld>>), Arr(<<AuthRecent>>)>>,
      <<AbsentArr, Arr(<<AuthRecent>>)>>,
      <<Arr(<<DevPartial>>), Arr(<<AuthOld>>)>>,
      <<Arr(<<DevNulls, DevRecent>>), Arr(<<>>)>>,
      <<Arr(<<DevPartial, DevNulls>>), Arr(<<AuthRecent, AuthOld>>)>>,
      <<NullArr, Arr(<<AuthOld, AuthBare>>)>> }

SampleDocuments ==
    {UserDocument(u, p[1], p[2]) : u \in {UidPlain, UidEph, Absent}, p \in SampleNested}

(* The collections: one arbitrary document, or up to MaxDocs sample documents. *)
Collections ==
    {<<d>> : d \in Documents} \cup SeqsUpTo(SampleDocuments, MaxDocs)

----------------------------------------------------------------------------
(* Python dict literals and the query language of the store.               *)
(* A dict literal is the sequence of its <<key, value>> items as written;  *)
(* a key of a query is a field path, a sequence of names.                  *)

(* Python keeps the last value of a key written more than once. *)
LastIndex(items, k) ==
    CHOOSE i \in DOMAIN items :
        /\ items[i][1] = k
        /\ \A j \in DOMAIN items : items[j][1] = k => j <= i

PyDict(items) ==
    [k \in {items[i][1] : i \in DOMAIN items} |-> items[LastIndex(items, k)][2]]

IsPrefix(p, cs) == Len(p) <= Len(cs) /\ \A i \in 1..Len(p) : cs[i] = p[i]

(* The two patterns of the pipeline, on a string's characters. *)
RegexMatch(re, v) ==
    /\ v.t = "str"
    /\ CASE re = "^eph\\." -> IsPrefix(<<"e", "p", "h", ".">>, v.s)
         [] re = "^[0-9]{18}$" -> Len(v.s) = 18 /\ \A i \in 1..Len(v.s) : v.s[i] \in Digit

(* The values a path reaches in a document: a path into an array reaches *)
(* the field of each element. *)
Candidates(d, path) ==
    IF Len(path) = 1
    THEN {d[path[1]]}
    ELSE LET f == d[path[1]]
         IN IF f.t = "array" THEN {e[path[2]] : e \in Range(f.a)} ELSE {Absent}

RECURSIVE Matches(_, _)

EvalOp(op, arg, cands) ==
    CASE op = "$exists" -> \E v \in cands : v.t # "absent"
      [] op = "$type" -> \E v \in cands : v.t = arg
      [] op = "$ne" ->
            IF arg = "null"
            THEN \A v \in cands : v.t \notin {"null", "absent"}
            ELSE \A v \in cands : ~(v.t = "array" /\ v.a = <<>>)
      [] op = "$not" -> ~(\E v \in cands : RegexMatch(arg, v))
      [] op = "$gte" -> \E v \in cands : v.t = "num" /\ v.n >= arg
      [] op = "$elemMatch" ->
            \E v \in cands : v.t = "array" /\ \E e \in Range(v.a) : Matches(PyDict(arg), e)

(* A query matches when every key's condition does; "$or" holds a list of queries. *)
Matches(query, d) ==
    \A k \in DOMAIN query :
        IF k = <<"$or">>
        THEN \E i \in DOMAIN query[k] : Matches(PyDict(query[k][i]), d)
        ELSE LET cond == PyDict(query[k])
             IN \A op \in DOMAIN cond : EvalOp(op, cond[op], Candidates(d, k))

Match(query, docs) == SelectSeq(docs, LAMBDA d : Matches(query, d))

RECURSIVE Flatten(_)
Flatten(ss) == IF ss = <<>> THEN <<>> ELSE Head(ss) \o Flatten(Tail(ss))

(* $unwind without preserveNullAndEmptyArrays *)
UnwindDoc_DropEmpty(d, field, preserve) ==
    LET f == d[field]
    IN IF f.t = "array" /\ f.a # <<>>
       THEN [i \in 1..Len(f.a) |-> [d EXCEPT ![field] = SubDoc(f.a[i])]]
       ELSE <<>>

(* $unwind of one document: one document per element, the field replaced by *)
(* the element; with preserveNullAndEmptyArrays the document itself when the *)
(* field is missing, null or empty. *)
UnwindDoc(d, field, preserve) ==
    LET f == d[field]
    IN IF f.t = "array" /\ f.a # <<>>
       THEN [i \in 1..Len(f.a) |-> [d EXCEPT ![field] = SubDoc(f.a[i])]]
       ELSE IF ~preserve THEN <<>>
       ELSE IF f.t = "array" THEN <<[d EXCEPT ![field] = AbsentArr]>>
       ELSE <<d>>

Unwind(docs, field, preserve) ==
    Flatten([i \in 1..Len(docs) |-> UnwindDoc(docs[i], field, preserve)])

(* "$field.sub": the sub-field of an embedded document, missing otherwise. *)
SubField(f, name) == IF f.t = "doc" THEN f.a[1][name] ELSE Absent

----------------------------------------------------------------------------
(* extract_active_devices.py *)

(* A Python exception leaving a function. *)
Raised == [t |-> "raised", n |-> 0, s |-> <<>>]

(* datetime.fromtimestamp accepts no time after the year 9999, *)
(* day 2 932 896 of the epoch. *)
MaxTimestampDay == 2932896

DigitChars == <<"0", "1", "2", "3", "4", "5", "6", "7", "8", "9">>

RECURSIVE Decimal(_)
Decimal(k) ==
    IF k < 10 THEN <<DigitChars[k + 1]>> ELSE Append(Decimal(k \div 10), DigitChars[(k % 10) + 1])

(* str() of a positive number *)
PyStr(v) == Str(Decimal(v.n))

(* isinstance(ts_ms, (int, float)); a Python bool is an int *)
IsInstanceNumber(v) == v.t \in {"num", "bool"}

(* datetime.fromtimestamp(ts_ms / 1000).strftime("%Y-%m-%d %H:%M:%S") *)
FromTimestampFormat(v) == IF v.n > MaxTimestampDay THEN Raised ELSE Date(v.n)

(* ms_to_readable without its try / except *)
ms_to_readable_NoExcept(ts_ms) ==
    IF ~IsInstanceNumber(ts_ms) \/ ts_ms.n <= 0
    THEN EmptyStr
    ELSE FromTimestampFormat(ts_ms)

ms_to_readable(ts_ms) ==
    IF ~IsInstanceNumber(ts_ms) \/ ts_ms.n <= 0
    THEN EmptyStr
    ELSE LET r == FromTimestampFormat(ts_ms)
         IN IF r = Raised THEN PyStr(ts_ms) ELSE r

(* The $match stage as written: "user_id" is written twice, and "$not" *)
(* twice within its second value. *)
UserIdPresence == << <<"$exists", "true">>, <<"$ne", "null">> >>

UserIdExclusion == << <<"$not", "^eph\\.">>, <<"$not", "^[0-9]{18}$">> >>

RecencyBranches ==
    << << << <<"devices", "last_access">>, << <<"$gte", one_year_ago_ms>> >> >> >>,
       << << <<"authenticators", "last_used">>, << <<"$gte", one_year_ago_ms>> >> >> >> >>

(* the $match stage without its "$or" *)
ExtractMatchItems_NoRecency ==
    << << <<"user_id">>, UserIdPresence >>,
       << <<"user_id">>, UserIdExclusion >> >>

ExtractMatchItems ==
    << << <<"user_id">>, UserIdPresence >>,
       << <<"user_id">>, UserIdExclusion >>,
       << <<"$or">>, RecencyBranches >> >>

ExtractMatch == PyDict(ExtractMatchItems)

(* The $project stage: a field whose source is missing is missing. *)
Project(d) ==
    [uid |-> d.user_id,
     device_id_from_devices |-> SubField(d.devices, "device_id"),
     device_created |-> SubField(d.devices, "created"),
     device_last_access |-> SubField(d.devices, "last_access"),
     auth_method |-> SubField(d.authenticators, "method"),
     auth_device_id |-> SubField(d.authenticators, "device_id"),
     auth_last_used |-> SubField(d.authenticators, "last_used"),
     auth_status |-> SubField(d.authenticators, "status"),
     auth_provider_config_id |-> SubField(d.authenticators, "provider_config_id"),
     auth_expired |-> SubField(d.authenticators, "expired")]

ProjectAll(docs) == [i \in 1..Len(docs) |-> Project(docs[i])]

(* The order of the store's values: a missing or null value is below every *)
(* number.  The sort keys of these documents hold numbers, null or nothing. *)
BsonRank(v) ==
    CASE v.t \in {"absent", "null"} -> 1
      [] v.t = "num" -> 2
      [] v.t = "str" -> 3
      [] v.t = "bool" -> 8

BsonLess(a, b) ==
    \/ BsonRank(a) < BsonRank(b)
    \/ BsonRank(a) = BsonRank(b) /\ a.n < b.n

(* $sort {device_last_access: -1} *)
SortsBefore_FirstKeyOnly(a, b) == BsonLess(b.device_last_access, a.device_last_access)

(* $sort {device_last_access: -1, auth_last_used: -1}: a goes before b *)
SortsBefore(a, b) ==
    \/ BsonLess(b.device_last_access, a.device_last_access)
    \/ /\ ~BsonLess(a.device_last_access, b.device_last_access)
       /\ BsonLess(b.auth_last_used, a.auth_last_used)

RemoveAt(seq, i) == [j \in 1..(Len(seq) - 1) |-> IF j < i THEN seq[j] ELSE seq[j + 1]]

(* The documents that may come first: none sorts before them.  Of equal *)
(* documents the first stands for all. *)
Firsts(docs) ==
    {i \in DOMAIN docs :
        /\ \A j \in DOMAIN docs : ~SortsBefore(docs[j], docs[i])
        /\ \A j \in 1..(i - 1) : docs[j] # docs[i]}

RECURSIVE SortOrders(_)

(* Every order $sort may return: the store leaves the order of documents of *)
(* equal keys open. *)
SortOrders(docs) ==
    IF docs = <<>>
    THEN {<<>>}
    ELSE UNION {{<<docs[i]>> \o o : o \in SortOrders(RemoveAt(docs, i))} : i \in Firsts(docs)}

(* The pipeline up to its $sort stage. *)
ExtractStages(coll) ==
    ProjectAll(Unwind(Unwind(Match(ExtractMatch, coll), "devices", TRUE),
                      "authenticators", TRUE))

(* db[COLLECTION_NAME].aggregate(pipeline): the lists the cursor may yield *)
Aggregate(coll) == SortOrders(ExtractStages(coll))

(* doc.get(key, default) and doc.get(key) *)
(* doc[key] for doc.get(key, default) *)
Get_NoDefault(v, default) == v

Get(v, default) == IF v.t = "absent" THEN default ELSE v

GetNone(v) == Get(v, Null)

Truthy(v) ==
    CASE v.t \in {"absent", "null"} -> FALSE
      [] v.t \in {"num", "bool"} -> v.n # 0
      [] v.t = "str" -> v.s # <<>>
      [] OTHER -> TRUE

(* b or a *)
PyOr_Swapped(a, b) == IF Truthy(b) THEN b ELSE a

PyOr(a, b) == IF Truthy(a) THEN a ELSE b

BuildRow(doc) ==
    [uid |-> Get(doc.uid, EmptyStr),
     device_id |->
        PyOr(PyOr(GetNone(doc.device_id_from_devices), GetNone(doc.auth_device_id)),
             EmptyStr),
     registered |->
        ms_to_readable(PyOr(GetNone(doc.device_created), GetNone(doc.auth_last_used))),
     last_access |->
        ms_to_readable(PyOr(PyOr(GetNone(doc.device_last_access),
                                 GetNone(doc.auth_last_used)),
                            Num(0))),
     method |-> Get(doc.auth_method, EmptyStr),
     status |-> Get(doc.auth_status, EmptyStr),
     provider_config_id |-> Get(doc.auth_provider_config_id, EmptyStr),
     expired |-> Get(doc.auth_expired, Bool(FALSE))]

BuildRows(docs) == [i \in 1..Len(docs) |-> BuildRow(docs[i])]

RowRaised(r) == r.registered = Raised \/ r.last_access = Raised

Line(text, k) == [text |-> text, n |-> k]

(* extract_flattened_devices(db, logger): the aggregation, then the loop over *)
(* the cursor.  An exception of ms_to_readable leaves the function. *)
extract_flattened_devices ==
    /\ pc = "idle"
    /\ \E sorted \in Aggregate(store) :
          LET built == BuildRows(sorted)
              log == out \o <<Line("Filtering last_access >=", one_year_ago_ms),
                              Line("Executing aggregation", 0)>>
          IN IF \E i \in DOMAIN built : RowRaised(built[i])
             THEN /\ pc' = "raised"
                  /\ out' = log
                  /\ UNCHANGED <<cursor, rows>>
             ELSE /\ pc' = "extracted"
                  /\ cursor' = sorted
                  /\ rows' = built
                  /\ out' = Append(log, Line("Extracted", Len(built)))
    /\ UNCHANGED <<store, count, norm>>

----------------------------------------------------------------------------
(* count_valid_device_users.py *)

(* first $match: devices exists, is an array, is not [] *)
DevicesNonEmpty ==
    << << <<"devices">>,
          << <<"$exists", "true">>, <<"$type", "array">>, <<"$ne", "[]">> >> >> >>

(* an $elemMatch on device_id alone *)
ValidDevice_DeviceIdOnly == << << <<"device_id">>, << <<"$exists", "true">> >> >> >>

(* second $match: one element has device_id, created and last_access *)
ValidDevice ==
    << << <<"device_id">>, << <<"$exists", "true">> >> >>,
       << <<"created">>, << <<"$exists", "true">> >> >>,
       << <<"last_access">>, << <<"$exists", "true">> >> >> >>

DevicesElemMatch == << << <<"devices">>, << <<"$elemMatch", ValidDevice>> >> >> >>

(* $group {_id: None, count: {$sum: 1}} and the $project after it: one *)
(* document holding the count, and no document at all for no input. *)
GroupCount(docs) ==
    IF docs = <<>> THEN <<>> ELSE <<[countOfUsersWithValidDevice |-> Len(docs)]>>

CountAggregate(coll) ==
    GroupCount(Match(PyDict(DevicesElemMatch), Match(PyDict(DevicesNonEmpty), coll)))

(* result[0]["countOfUsersWithValidDevice"] if result else 0 *)
CountResult(coll) ==
    LET result == CountAggregate(coll)
    IN IF result # <<>> THEN result[1].countOfUsersWithValidDevice ELSE 0

(* count_users_with_valid_devices(db, logger), called with a logger *)
count_users_with_valid_devices ==
    /\ pc = "idle"
    /\ pc' = "counted"
    /\ count' = CountResult(store)
    /\ out' = Append(out, Line("Number of users with >=1 valid device", CountResult(store)))
    /\ UNCHANGED <<store, cursor, rows, norm>>

(* class Logger: def __init__(self, level=0) *)
LoggerParams == {"level"}

(* A call with a keyword that is no parameter raises TypeError. *)
LoggerInit(keywords) == IF keywords \subseteq LoggerParams THEN "logger" ELSE "TypeError"

(* The script: sys.argv holds the script's name and the arguments. *)
MainArgs ==
    /\ pc = "idle"
    /\ \E argc \in 1..6 :
          IF argc < 5
          THEN /\ pc' = "usage_exit"
               /\ out' = Append(out, Line("Usage", 0))
          ELSE /\ pc' = "args_ok"
               /\ out' = out
    /\ UNCHANGED <<store, cursor, rows, count, norm>>

(* getpass, print, MongoClient(...), client[database_name] *)
MainConnect ==
    /\ pc = "args_ok"
    /\ pc' = "connected"
    /\ out' = Append(out, Line("Connecting to MongoDB...", 0))
    /\ UNCHANGED <<store, cursor, rows, count, norm>>

(* From start_time to the end of the script: Logger(loglevel=0), the count, *)
(* the line of completion. *)
MainCount ==
    /\ pc = "connected"
    /\ LET started == Append(out, Line("Started", 0))
       IN IF LoggerInit({"loglevel"}) = "TypeError"
          THEN /\ pc' = "type_error"
               /\ out' = started
               /\ count' = count
          ELSE /\ pc' = "completed"
               /\ count' = CountResult(store)
               /\ out' = started \o
                         <<Line("Number of users with >=1 valid device", CountResult(store)),
                           Line("Completed in", 0)>>
    /\ UNCHANGED <<store, cursor, rows, norm>>

----------------------------------------------------------------------------
(* The pipelines and the script over a collection *)

NoResult == [arg |-> Absent, res |-> Absent]

Init ==
    /\ store \in Collections
    /\ pc = "idle"
    /\ cursor = <<>>
    /\ rows = <<>>
    /\ count = -1
    /\ out = <<>>
    /\ norm = NoResult

Next ==
    \/ extract_flattened_devices
    \/ count_users_with_valid_devices
    \/ MainArgs
    \/ MainConnect
    \/ MainCount

Spec == Init /\ [][Next]_vars

----------------------------------------------------------------------------
(* ms_to_readable over its inputs *)

NormInputs ==
    {Null, EmptyStr, Str(<<"x">>), Str(<<"1", "7">>), Bool(FALSE), Bool(TRUE)}
    \cup {Num(k) : k \in (0 - NormSpan)..NormSpan}
    \cup {Num(k) : k \in (MaxTimestampDay - NormSpan)..(MaxTimestampDay + NormSpan)}

InitNorm ==
    /\ store = <<>>
    /\ pc = "idle"
    /\ cursor = <<>>
    /\ rows = <<>>
    /\ count = -1
    /\ out = <<>>
    /\ norm = NoResult

Normalize ==
    /\ \E v \in NormInputs : norm' = [arg |-> v, res |-> ms_to_readable(v)]
    /\ UNCHANGED <<store, pc, cursor, rows, count, out>>

NextNorm == Normalize

SpecNorm == InitNorm /\ [][NextNorm]_vars

----------------------------------------------------------------------------
(* What the claims speak of *)

Devices(d) == IF d.devices.t = "array" THEN d.devices.a ELSE <<>>

Authenticators(d) == IF d.authenticators.t = "array" THEN d.authenticators.a ELSE <<>>

Present(v) == v.t # "absent"

AtLeastOne(k) == IF k < 1 THEN 1 ELSE k

Occurrences(seq, x) == Cardinality({i \in DOMAIN seq : seq[i] = x})

(* the same elements, each as often *)
SameBag(a, b) ==
    LET left == a
        right == b
    IN /\ Len(left) = Len(right)
       /\ \A x \in Range(left) \cup Range(right) :
             Occurrences(left, x) = Occurrences(right, x)

RECURSIVE Sum(_)
Sum(ks) == IF ks = <<>> THEN 0 ELSE Head(ks) + Sum(Tail(ks))

(* the documents the first stage of the extraction lets through *)
Admitted(d) == Matches(ExtractMatch, d)

AdmittedDocs == SelectSeq(store, Admitted)

ExcludedId(v) ==
    /\ v.t = "str"
    /\ \/ IsPrefix(<<"e", "p", "h", ".">>, v.s)
       \/ Len(v.s) = 18 /\ \A i \in 1..Len(v.s) : v.s[i] \in Digit

Threshold == NowDay - DAYS_THRESHOLD

RecentActivity(d) ==
    \/ \E e \in Range(Devices(d)) : e.last_access.t = "num" /\ e.last_access.n >= Threshold
    \/ \E a \in Range(Authenticators(d)) : a.last_used.t = "num" /\ a.last_used.n >= Threshold

(* The pairs of the expansion: an absent array stands as one absent record. *)
NoDevice == Device(Absent, Absent, Absent)

NoAuthenticator == Authenticator(Absent, Absent, Absent, Absent, Absent, Absent)

DeviceSlots(d) == IF Devices(d) = <<>> THEN <<NoDevice>> ELSE Devices(d)

AuthenticatorSlots(d) == IF Authenticators(d) = <<>> THEN <<NoAuthenticator>> ELSE Authenticators(d)

PairsOf(d) ==
    LET ds == DeviceSlots(d)
        as == AuthenticatorSlots(d)
    IN [k \in 1..(Len(ds) * Len(as)) |->
          <<ds[((k - 1) \div Len(as)) + 1], as[((k - 1) % Len(as)) + 1]>>]

AdmittedPairs ==
    LET docs == AdmittedDocs
    IN Flatten([i \in 1..Len(docs) |-> PairsOf(docs[i])])

Columns ==
    {"uid", "device_id", "registered", "last_access", "method", "status",
     "provider_config_id", "expired"}

----------------------------------------------------------------------------
(* C1: no row of the extraction comes from a document whose user_id starts *)
(* with "eph." or is a string of 18 digits: such a user_id is the uid of no *)
(* returned row. *)
C1_BothExclusionsApply ==
    pc = "extracted" => \A i \in DOMAIN rows : ~ExcludedId(rows[i].uid)

(* C2: no row of the extraction comes from a document without a user_id or *)
(* with a null one: the uid of every returned row is not null and is the *)
(* user_id of a document of the store. *)
C2_UserIdPresent ==
    pc = "extracted" =>
        \A i \in DOMAIN rows :
            /\ rows[i].uid.t # "null"
            /\ \E k \in DOMAIN store : store[k].user_id = rows[i].uid

(* C3: the count is the number of documents whose devices is an array with *)
(* an element in which device_id, created and last_access are all present, *)
(* whatever their values; it is 0 when there is none; the summary line *)
(* carries it. *)
HasValidDevice(d) ==
    /\ d.devices.t = "array"
    /\ \E e \in Range(d.devices.a) :
          Present(e.device_id) /\ Present(e.created) /\ Present(e.last_access)

C3_CountsDocuments ==
    pc = "counted" =>
        /\ count = Cardinality({k \in DOMAIN store : HasValidDevice(store[k])})
        /\ out[Len(out)].n = count

C3_Witness ==
    /\ pc = "counted"
    /\ Len(store) = 2
    /\ count = 1
    /\ \E k \in DOMAIN store :
          /\ Devices(store[k]) = <<DevPartial, DevNulls>>
          /\ Devices(store[3 - k]) = <<DevPartial>>

(* C4: an admitted document of m devices and n authenticators gives *)
(* max(m,1) * max(n,1) rows, and the list holds the sum of these. *)
RowsOfDoc(d) == AtLeastOne(Len(Devices(d))) * AtLeastOne(Len(Authenticators(d)))

C4_CrossProduct ==
    pc = "extracted" =>
        LET docs == AdmittedDocs
        IN Len(rows) = Sum([k \in 1..Len(docs) |-> RowsOfDoc(docs[k])])

C4_Witness ==
    /\ pc = "extracted"
    /\ Len(AdmittedDocs) = 2
    /\ Len(Devices(AdmittedDocs[1])) = 2 /\ Len(Authenticators(AdmittedDocs[1])) = 2
    /\ Len(Devices(AdmittedDocs[2])) = 2 /\ Len(Authenticators(AdmittedDocs[2])) = 0
    /\ Len(rows) = 6


(* The number a row's last_access column was formatted from, 0 for none. *)
RowTimestamp(r) == IF r.last_access.t = "date" THEN r.last_access.n ELSE 0

(* x >= y for timestamps, a missing or null one being below every number *)
TsAtLeast(x, y) == IF x.t = "num" THEN y.t # "num" \/ x.n >= y.n ELSE y.t # "num"

TsSame(x, y) == TsAtLeast(x, y) /\ TsAtLeast(y, x)

(* C5 as stated: the list is in descending order of the timestamp of the *)
(* rows' last_access column (the device's last_access, else the *)
(* authenticator's last_used, else 0), rows of equal timestamps in *)
(* descending order of the authenticator's last_used. *)
C5_LastAccessDescending ==
    pc = "extracted" =>
        \A i, j \in DOMAIN rows :
            i < j =>
                /\ RowTimestamp(rows[i]) >= RowTimestamp(rows[j])
                /\ RowTimestamp(rows[i]) = RowTimestamp(rows[j]) =>
                       TsAtLeast(cursor[i].auth_last_used, cursor[j].auth_last_used)

(* C5 amended: the rows are those of the cursor in its order, which is the *)
(* descending order of the device's own last_access, a row without one *)
(* after every row with one, rows of equal device last_access in descending *)
(* order of the authenticator's last_used. *)
C5_DeviceLastAccessDescending ==
    pc = "extracted" =>
        /\ Len(rows) = Len(cursor)
        /\ \A i \in DOMAIN rows : rows[i] = BuildRow(cursor[i])
        /\ \A i, j \in DOMAIN cursor :
              i < j =>
                  /\ TsAtLeast(cursor[i].device_last_access, cursor[j].device_last_access)
                  /\ TsSame(cursor[i].device_last_access, cursor[j].device_last_access) =>
                         TsAtLeast(cursor[i].auth_last_used, cursor[j].auth_last_used)

C5_Witness ==
    /\ pc = "extracted"
    /\ Len(store) = 2
    /\ \E i, j \in DOMAIN cursor :
          /\ i < j
          /\ cursor[i].device_last_access.t = "num"
          /\ cursor[j].device_last_access.t = "num"
          /\ cursor[i].device_last_access.n > cursor[j].device_last_access.n
    /\ \E i, j \in DOMAIN cursor :
          /\ i < j
          /\ cursor[i].device_last_access = cursor[j].device_last_access
          /\ cursor[i].auth_last_used.t = "num"
          /\ cursor[j].auth_last_used.t = "num"
          /\ cursor[i].auth_last_used.n > cursor[j].auth_last_used.n
    /\ \E i, j \in DOMAIN rows : i < j /\ RowTimestamp(rows[i]) < RowTimestamp(rows[j])

(* C6: the rows are those of the documents with a device last_access or an *)
(* authenticator last_used at or after the threshold; a document without *)
(* one contributes no row. *)
C6_RecencyGate ==
    pc = "extracted" =>
        /\ SameBag(rows, BuildRows(ExtractStages(SelectSeq(store, RecentActivity))))
        /\ (\A k \in DOMAIN store : ~RecentActivity(store[k])) => rows = <<>>

C6_Witness ==
    /\ pc = "extracted"
    /\ Len(store) = 2
    /\ Devices(store[1]) = <<DevRecent>> /\ RecentActivity(store[1])
    /\ Devices(store[2]) = <<DevPartial>> /\ ~RecentActivity(store[2])
    /\ Admitted(store[1])
    /\ Len(rows) = 1

(* C7: every row has the eight columns; method, status and *)
(* provider_config_id are the paired authenticator's field when it has it *)
(* and the empty string otherwise, expired the authenticator's or false. *)
OrElse(v, default) == IF Present(v) THEN v ELSE default

AuthColumnsOf(a) ==
    [method |-> OrElse(a.method, EmptyStr),
     status |-> OrElse(a.status, EmptyStr),
     provider_config_id |-> OrElse(a.provider_config_id, EmptyStr),
     expired |-> OrElse(a.expired, Bool(FALSE))]

AuthColumns(r) ==
    [method |-> r.method, status |-> r.status,
     provider_config_id |-> r.provider_config_id, expired |-> r.expired]

C7_AuthenticatorColumns ==
    pc = "extracted" =>
        /\ \A i \in DOMAIN rows : DOMAIN rows[i] = Columns
        /\ LET pairs == AdmittedPairs
           IN SameBag([i \in DOMAIN rows |-> AuthColumns(rows[i])],
                      [k \in DOMAIN pairs |-> AuthColumnsOf(pairs[k][2])])

C7_Witness ==
    /\ pc = "extracted"
    /\ Len(store) = 1
    /\ Len(Devices(store[1])) = 2
    /\ Authenticators(store[1]) = <<>>
    /\ Len(rows) = 2
    /\ \A i \in DOMAIN rows :
          AuthColumns(rows[i]) =
              [method |-> EmptyStr, status |-> EmptyStr,
               provider_config_id |-> EmptyStr, expired |-> Bool(FALSE)]

(* C8: device_id is the device's device_id, else the authenticator's, else *)
(* the empty string; registered the normalized device created, else *)
(* authenticator last_used; last_access the normalized device last_access, *)
(* else authenticator last_used, else 0: the first source that is present *)
(* and truthy. *)
FirstTruthy(sources, default) ==
    IF \E i \in DOMAIN sources : Present(sources[i]) /\ Truthy(sources[i])
    THEN LET first == CHOOSE i \in DOMAIN sources :
                          /\ Present(sources[i]) /\ Truthy(sources[i])
                          /\ \A j \in 1..(i - 1) : ~(Present(sources[j]) /\ Truthy(sources[j]))
         IN sources[first]
    ELSE default

ResolvedOf(pair) ==
    [device_id |-> FirstTruthy(<<pair[1].device_id, pair[2].device_id>>, EmptyStr),
     registered |-> ms_to_readable(FirstTruthy(<<pair[1].created, pair[2].last_used>>, Null)),
     last_access |->
        ms_to_readable(FirstTruthy(<<pair[1].last_access, pair[2].last_used>>, Num(0)))]

Resolved(r) ==
    [device_id |-> r.device_id, registered |-> r.registered, last_access |-> r.last_access]

C8_FallbackChains ==
    pc = "extracted" =>
        LET pairs == AdmittedPairs
        IN SameBag([i \in DOMAIN rows |-> Resolved(rows[i])],
                   [k \in DOMAIN pairs |-> ResolvedOf(pairs[k])])

C8_Witness ==
    /\ pc = "extracted"
    /\ Len(store) = 1
    /\ Devices(store[1]) = <<DevNulls, DevOld>>
    /\ Authenticators(store[1]) = <<AuthRecent>>
    /\ \E i \in DOMAIN rows :
          Resolved(rows[i]) =
              [device_id |-> AuthRecent.device_id,
               registered |-> Date(TsRecent), last_access |-> Date(TsRecent)]
    /\ \E i \in DOMAIN rows :
          Resolved(rows[i]) =
              [device_id |-> DevOld.device_id,
               registered |-> Date(TsCreated), last_access |-> Date(TsOld)]

(* C9: ms_to_readable raises for no input; it returns the empty string for *)
(* None, a value that is no number, zero and a negative number, and for a *)
(* positive number the formatted date or, the conversion failing, the *)
(* number as a string. *)
C9_NormalizationTotal ==
    norm # NoResult =>
        /\ norm.res # Raised
        /\ IF IsInstanceNumber(norm.arg) /\ norm.arg.n > 0
           THEN \/ norm.res = Date(norm.arg.n)
                \/ norm.arg.n > MaxTimestampDay /\ norm.res = Str(Decimal(norm.arg.n))
           ELSE norm.res = EmptyStr

C9_Witness ==
    /\ norm.arg = Num(MaxTimestampDay + 1)
    /\ norm.res = Str(<<"2", "9", "3", "2", "8", "9", "7">>)

(* C10: a run of the counting script that has connected does not end in an *)
(* error before the count: it goes on to the count, the summary line and *)
(* the line of completion. *)
C10_RunReachesCount == pc # "type_error"

====
